---- MODULE Spec2Model ----
(***************************************************************************)
(* A model of fotoshare_album_downloader.py: main() signs in, resolves the *)
(* album's image URLs (_extract_image_urls, two tiers), and downloads them *)
(* through a ThreadPoolExecutor whose workers run _download_one.           *)
(*                                                                         *)
(* Strings are sequences of one-character strings.  The one exception is   *)
(* the token "H", which stands for the scheme and authority of the site    *)
(* ("https://fotoshare.co"); every absolute URL of the model starts with   *)
(* it.  The transport follows redirects (requests' default), so the status *)
(* a caller sees is a 2xx, 4xx or 5xx one.  The filesystem is POSIX: a     *)
(* rename replaces its target, and an open handle follows its inode.       *)
(***************************************************************************)
EXTENDS Integers, Sequences, FiniteSets, TLC

(***************************************************************************)
(* Bounds of the model.                                                    *)
(***************************************************************************)
\* tags on one page (album page or photo page)
MaxTags == 2
\* resolved URLs a run goes on to download
MaxImages == 2
\* --workers ranges over 0..MaxWorkers
MaxWorkers == 2
\* chunks in one response body
MaxChunks == 2

(***************************************************************************)
(* Characters and strings.                                                 *)
(***************************************************************************)
\* code points decide sorted(); "H" abbreviates "https://..." and sorts as 'h'
Ord(c) ==
  CASE c = "." -> 46
    [] c = "/" -> 47
    [] c = "=" -> 61
    [] c = "?" -> 63
    [] c = "A" -> 65
    [] c = "D" -> 68
    [] c = "G" -> 71
    [] c = "H" -> 104
    [] c = "I" -> 73
    [] c = "L" -> 76
    [] c = "N" -> 78
    [] c = "P" -> 80
    [] c = "V" -> 86
    [] c = "a" -> 97
    [] c = "b" -> 98
    [] c = "d" -> 100
    [] c = "f" -> 102
    [] c = "g" -> 103
    [] c = "i" -> 105
    [] c = "j" -> 106
    [] c = "k" -> 107
    [] c = "l" -> 108
    [] c = "m" -> 109
    [] c = "n" -> 110
    [] c = "o" -> 111
    [] c = "p" -> 112
    [] c = "r" -> 114
    [] c = "t" -> 116
    [] c = "u" -> 117
    [] c = "v" -> 118
    [] c = "x" -> 120

\* str.lower() on one character
LowerChar(c) ==
  CASE c = "A" -> "a"
    [] c = "D" -> "d"
    [] c = "G" -> "g"
    [] c = "I" -> "i"
    [] c = "L" -> "l"
    [] c = "N" -> "n"
    [] c = "P" -> "p"
    [] c = "V" -> "v"
    [] OTHER -> c

Lower(s) == [k \in 1..Len(s) |-> LowerChar(s[k])]

\* \w of the regular expressions: letters of the alphabet (no digits occur)
IsWordChar(c) == c \notin {".", "/", "=", "?"}

\* s[from..to], empty when from > to
Slice(s, from, to) == [k \in 1..(to - from + 1) |-> s[from + k - 1]]

\* sub occurs in s at offset k (1-based)
OccursAt(sub, s, k) ==
  /\ k >= 1
  /\ k + Len(sub) - 1 <= Len(s)
  /\ \A j \in 1..Len(sub) : s[k + j - 1] = sub[j]

\* Python's  sub in s
Contains(sub, s) == \E k \in 1..(Len(s) + 1) : OccursAt(sub, s, k)

\* position of the first occurrence of character c in s, 0 when absent
FirstIndex(c, s) ==
  IF \E k \in 1..Len(s) : s[k] = c
  THEN CHOOSE k \in 1..Len(s) : s[k] = c /\ \A j \in 1..(k - 1) : s[j] # c
  ELSE 0

\* position of the last occurrence of character c in s, 0 when absent
LastIndex(c, s) ==
  IF \E k \in 1..Len(s) : s[k] = c
  THEN CHOOSE k \in 1..Len(s) : s[k] = c /\ \A j \in (k + 1)..Len(s) : s[j] # c
  ELSE 0

\* Python's  a < b  on strings
StrLess(a, b) ==
  \E k \in 1..(Len(a) + 1) :
    /\ k <= Len(b)
    /\ \A j \in 1..(k - 1) : a[j] = b[j]
    /\ \/ k = Len(a) + 1
       \/ Ord(a[k]) < Ord(b[k])

\* (a variant that sorts in descending order)
SortsAfter(a, b) == StrLess(b, a)

\* the order sorted() puts two keys in: ascending, no key, no reverse
SortsBefore(a, b) == StrLess(a, b)

\* sorted(S) for a set of strings
RECURSIVE Sorted(_)
Sorted(S) ==
  IF S = {} THEN <<>>
  ELSE LET m == CHOOSE x \in S : \A y \in S \ {x} : SortsBefore(x, y)
       IN <<m>> \o Sorted(S \ {m})

(***************************************************************************)
(* URL helpers.                                                            *)
(***************************************************************************)
\* the image extensions of _is_image's pattern, lower case
ImageExts ==
  { <<"j","p","g">>, <<"j","p","e","g">>, <<"p","n","g">>, <<"g","i","f">> }

\* re.search(r"\.(?:jpe?g|png|gif)(?:\?|$)", url, re.I) is not None
_is_image(url) ==
  \E k \in 1..Len(url) : \E e \in ImageExts :
    /\ url[k] = "."
    /\ OccursAt(e, Lower(url), k + 1)
    /\ \/ k + Len(e) = Len(url)
       \/ (k + Len(e) < Len(url) /\ url[k + Len(e) + 1] = "?")

\* re.search(r"/p/\w+", href)
IsPermalink(href) ==
  \E k \in 1..Len(href) :
    /\ OccursAt(<<"/","p","/">>, href, k)
    /\ k + 3 <= Len(href)
    /\ IsWordChar(href[k + 3])

\* s.split('?')[0]
StripQuery(s) ==
  IF FirstIndex("?", s) = 0 THEN s ELSE Slice(s, 1, FirstIndex("?", s) - 1)

\* urljoin(base, link) for a base "H<path>" without query: an absolute link
\* is kept, an empty one gives the base, a query-only one replaces the
\* base's query, a rooted one replaces the base's path, any other one
\* replaces the base's last path segment
_absolute(base, link) ==
  IF link = <<>> THEN base
  ELSE IF link[1] = "H" THEN link
  ELSE IF link[1] = "?" THEN StripQuery(base) \o link
  ELSE IF link[1] = "/" THEN <<"H">> \o link
  ELSE Slice(base, 1, LastIndex("/", StripQuery(base))) \o link

\* Path(urlparse(url).path).name: the last segment of the URL's path
FileName(url) ==
  LET path == StripQuery(Tail(url))
  IN Slice(path, LastIndex("/", path) + 1, Len(path))

\* dest.with_suffix(dest.suffix + ".part")
Marker(name) == name \o <<".","p","a","r","t">>

(***************************************************************************)
(* Markup.  A tag is its name and its attributes; a page is the sequence   *)
(* of its <a> and <img> tags in document order.                            *)
(***************************************************************************)
Str_a_jpg     == <<"a",".","j","p","g">>
Str_f_a_jpg_q == <<"H","/","f","/","a",".","j","p","g","?","x">>
Str_b_PNG     == <<"/","b",".","P","N","G">>
Str_t_q_gif   == <<"t","?","u","=",".","g","i","f">>
Str_p_k       == <<"/","p","/","k">>
Str_p_m       == <<"/","p","/","m">>
Str_txt       == <<"c",".","t","x","t">>

\* tag.get(attr) of a missing attribute
None == <<"None">>

AttrNames == {"href", "data-full", "data-original", "data-src", "src"}

\* a tag with at most two attributes set
Tag2(name, x1, v1, x2, v2) ==
  [name |-> name,
   attrs |-> [x \in AttrNames |-> IF x = x1 THEN v1 ELSE IF x = x2 THEN v2 ELSE None]]

Anchor(href) == Tag2("a", "href", href, "href", href)
Img(x, v)    == Tag2("img", x, v, x, v)

\* the tags pages are built from
TagSamples ==
  { Anchor(Str_a_jpg), Anchor(Str_p_k), Anchor(Str_p_m), Anchor(Str_txt),
    Anchor(None),
    Tag2("img", "data-full", Str_f_a_jpg_q, "src", Str_b_PNG),
    Img("src", Str_a_jpg),
    Img("src", Str_f_a_jpg_q),
    Img("src", Str_t_q_gif),
    Img("src", Str_txt),
    Img("data-src", Str_b_PNG) }

\* every page of at most MaxTags tags
Pages == UNION { [1..n -> TagSamples] : n \in 0..MaxTags }

\* args.album_url
album_url == <<"H","/","i","/","k">>

_FULL_RES_ATTRS == {"data-full", "data-original", "data-src", "src"}

\* tag.get(x) is truthy: present and not empty
Truthy(v) == v # None /\ v # <<>>

\* the srcs list of one tag, without its falsy entries: an anchor's href, an
\* image's four attributes
TagSrcs(tag) ==
  IF tag.name = "a"
  THEN {v \in {tag.attrs["href"]} : Truthy(v)}
  ELSE {v \in {tag.attrs[x] : x \in _FULL_RES_ATTRS} : Truthy(v)}

\* the clean_url of one accepted src
CleanUrl(base, src) == StripQuery(_absolute(base, src))

\* Case 1: the candidates the album page yields directly
Tier1(soup) ==
  UNION { { CleanUrl(album_url, src) : src \in {s \in TagSrcs(soup[k]) : _is_image(s)} }
          : k \in 1..Len(soup) }

\* (a variant that follows the photo pages whatever Case 1 found)
NeedTier2Always(cands) == TRUE

\* if not candidates
NeedTier2(cands) == cands = {}

\* the thumb_links list: permalink anchors in document order
RECURSIVE ThumbLinks(_)
ThumbLinks(soup) ==
  IF soup = <<>> THEN <<>>
  ELSE LET a == Head(soup)
       IN (IF a.name = "a" /\ a.attrs["href"] # None /\ IsPermalink(a.attrs["href"])
           THEN <<_absolute(album_url, a.attrs["href"])>> ELSE <<>>)
          \o ThumbLinks(Tail(soup))

\* psoup.find("img", src=True): index of the first image with a src, or 0
FirstImg(psoup) ==
  LET hit(k) == psoup[k].name = "img" /\ psoup[k].attrs["src"] # None
  IN IF \E k \in 1..Len(psoup) : hit(k)
     THEN CHOOSE k \in 1..Len(psoup) : hit(k) /\ \A j \in 1..(k - 1) : ~hit(j)
     ELSE 0

\* the URL added for one photo page
Tier2Url(tlink, src) == _absolute(tlink, src)

\* (a variant that adds the first image whatever its extension)
PageEntryAny(tlink, psoup) ==
  IF FirstImg(psoup) # 0
  THEN {Tier2Url(tlink, psoup[FirstImg(psoup)].attrs["src"])}
  ELSE {}

\* what one photo page adds to the candidates
PageEntry(tlink, psoup) ==
  IF FirstImg(psoup) # 0 /\ _is_image(psoup[FirstImg(psoup)].attrs["src"])
  THEN {Tier2Url(tlink, psoup[FirstImg(psoup)].attrs["src"])}
  ELSE {}

(***************************************************************************)
(* What the network and the command line can supply.                       *)
(***************************************************************************)
\* status codes a response can carry
Statuses == {200, 204, 404, 500}

\* bodies of the sign-in response
Bodies ==
  { <<"o","k">>,
    <<"I","N","V","A","L","I","D">>,
    <<"n","o","i","n","v","a","l","i","d">> }

\* the bodies a response of this status can carry: a 204 has no content
BodiesOf(status) == IF status = 204 THEN {<<>>} ELSE Bodies

\* the destination file name and the marker a previous run may have left
PreName == Str_a_jpg
PrePaths == {PreName, Marker(PreName)}

\* inodes and chunks of such leftovers; an invocation's inode is its index
PreIno(path) == IF path = PreName THEN 0 - 1 ELSE 0 - 2
OldData == << <<0, 1>> >>
Hole == <<0, 0>>

(***************************************************************************)
(* Decisions of the code.                                                  *)
(***************************************************************************)
\* (a variant that signs in when either one is given)
NeedLoginEither(e, p) == e \/ p

\* main: if args.email and args.password
NeedLogin(e, p) == e /\ p

\* _login returns instead of raising
LoginOk(err, status, body) ==
  /\ ~err
  /\ status = 200
  /\ ~Contains(<<"i","n","v","a","l","i","d">>, Lower(body))

\* resp.raise_for_status() raises
RaisesForStatus(status) == status >= 400 /\ status < 600

\* (a variant that logs a failed sign-in or album fetch and goes on)
CatchesSetupErrorToo(kind) == TRUE

\* main has no handler around _login and _extract_image_urls; kind is
\* "transport", "http" or "rejected"
CatchesSetupError(kind) == FALSE

\* (a variant that handles HTTP errors only)
CatchesHttpPageError(kind) == kind = "http"

\* _extract_image_urls: except Exception around one photo page
CatchesPageError(kind) == TRUE

\* main: if not images: sys.exit(1)
AfterResolve(imgs) == IF imgs = <<>> THEN "exit1" ELSE "pool"

\* (a variant that goes on to the GET although the file is there)
AfterExistsNoReturn(exists) == "get"

\* _download_one: if dest.exists(): return
AfterExists(exists) == IF exists THEN "ok" ELSE "get"

\* (a variant that sends the request again after a failed one)
AfterGetErrorRetry(kind) == "get"

\* _download_one: an exception of session.get or raise_for_status leaves
\* the function; there is no loop around the request
AfterGetError(kind) == "fail"

\* (a variant that leaves the loop at the first future handed over)
JoinOverAtFirst(futs) == \E i \in 1..Len(futs) : futs[i].seen

\* main: as_completed(futures) is exhausted, and the pool's with-block
\* ends, only when every future was handed over
JoinOver(futs) == \A i \in 1..Len(futs) : futs[i].seen

\* (a variant that hands work to a worker still running a future)
WorkerAlwaysFree(running) == TRUE

\* ThreadPoolExecutor: a worker takes work only when it runs nothing
WorkerFree(running) == running = 0

\* (a variant that handles HTTP errors only)
CatchesHttpResultError(kind) == kind = "http"

\* main: except Exception around fut.result()
CatchesResultError(kind) == TRUE

\* a future as pool.submit leaves it, with the file name of the dest
\* argument computed from its URL; blen is -1 until a response arrives
NewFuture(url) ==
  [dest |-> FileName(url),
   st |-> "pending", existed |-> FALSE, gets |-> 0, blen |-> 0 - 1, pos |-> 0, fh |-> 0,
   err |-> "none", seen |-> FALSE]

(***************************************************************************)
(* State.                                                                  *)
(***************************************************************************)
VARIABLES
  email, password, workers,  \* args: credentials supplied, --workers
  pc, exitCode,              \* main's position; exit status, -1 while running
  posts, albumGets, pageGets,\* requests made so far, by kind
  loginResp,                 \* the sign-in response
  albumResp,                 \* the album response: its status, 0 for none at
                             \* all (transport error), -1 before the request
  soup, candidates,          \* _extract_image_urls: album page, candidate set
  thumb_links, tidx, thist,  \* Case 2: the links, the next one, what each gave
  images,                    \* the resolved URLs
  futures, queue, cur,       \* the pool: futures, work queue, worker -> future
  files, data, pre,          \* out_dir: path -> inode, inode -> chunks; paths at start
  outcomes, bar              \* what as_completed collected; the progress bar

vars ==
  << email, password, workers, pc, exitCode, posts, albumGets, pageGets,
     loginResp, albumResp, soup, candidates, thumb_links, tidx, thist, images,
     futures, queue, cur, files, data, pre, outcomes, bar >>

argVars  == << email, password, workers >>
scanVars == << soup, candidates, thumb_links, tidx, thist, images >>
poolVars == << futures, queue, cur >>
fsVars   == << files, data, pre >>
netVars  == << posts, albumGets, pageGets, loginResp, albumResp >>
repVars  == << outcomes, bar >>

NoResp == [err |-> FALSE, status |-> 0, body |-> <<>>]

Init ==
  /\ email \in BOOLEAN
  /\ password \in BOOLEAN
  /\ workers \in 0..MaxWorkers
  /\ pc = "start"
  /\ exitCode = 0 - 1
  /\ posts = 0 /\ albumGets = 0 /\ pageGets = 0
  /\ loginResp = NoResp
  /\ albumResp = 0 - 1
  /\ soup = <<>> /\ candidates = {}
  /\ thumb_links = <<>> /\ tidx = 1 /\ thist = <<>>
  /\ images = <<>>
  /\ futures = <<>> /\ queue = <<>>
  /\ cur = [w \in 1..workers |-> 0]
  /\ pre \in SUBSET PrePaths
  /\ files = [q \in pre |-> PreIno(q)]
  /\ data = [n \in {PreIno(q) : q \in pre} |-> OldData]
  /\ outcomes = {} /\ bar = 0

(***************************************************************************)
(* main, up to the resolved URLs.                                          *)
(***************************************************************************)
\* lines 172-180: make the directory and the session, sign in if asked to
Start ==
  /\ pc = "start"
  /\ pc' = IF NeedLogin(email, password) THEN "login" ELSE "scan"
  /\ UNCHANGED << argVars, exitCode, netVars, scanVars, poolVars, fsVars, repVars >>

\* _login: one POST; anything but a clean 200 raises
Login ==
  /\ pc = "login"
  /\ posts' = posts + 1
  /\ \E resp \in {[err |-> TRUE, status |-> 0, body |-> <<>>]}
                 \cup UNION { [err : {FALSE}, status : {st}, body : BodiesOf(st)]
                               : st \in Statuses } :
       LET kind == IF resp.err THEN "transport"
                   ELSE IF resp.status # 200 THEN "http" ELSE "rejected"
       IN /\ loginResp' = resp
          /\ pc' = IF LoginOk(resp.err, resp.status, resp.body) \/ CatchesSetupError(kind)
                   THEN "scan" ELSE "crash"
  /\ exitCode' = IF pc' = "crash" THEN 1 ELSE exitCode
  /\ UNCHANGED << argVars, albumGets, pageGets, albumResp, scanVars, poolVars, fsVars,
                  repVars >>

\* the ways a GET fails: no response at all (0), or a status that raises
GetFailures == {0} \cup {st \in Statuses : RaisesForStatus(st)}

ErrorKind(f) == IF f = 0 THEN "transport" ELSE "http"

\* the pages a response of this status can carry: a 204 has no content
PagesOf(status) == IF status = 204 THEN {<<>>} ELSE Pages

\* _extract_image_urls, lines 100-102: fetch and parse the album page
AlbumGet ==
  /\ pc = "scan"
  /\ albumGets' = albumGets + 1
  /\ \/ \E f \in GetFailures :
          /\ albumResp' = f
          /\ pc' = IF CatchesSetupError(ErrorKind(f)) THEN "tier1" ELSE "crash"
          /\ soup' = soup
     \/ \E status \in Statuses \ GetFailures : \E page \in PagesOf(status) :
          /\ albumResp' = status
          /\ pc' = "tier1"
          /\ soup' = page
  /\ exitCode' = IF pc' = "crash" THEN 1 ELSE exitCode
  /\ UNCHANGED << argVars, posts, pageGets, loginResp, candidates, thumb_links,
                  tidx, thist, images, poolVars, fsVars, repVars >>

\* lines 104-123: Case 1, then the links of Case 2 if it found nothing
Case1 ==
  /\ pc = "tier1"
  /\ candidates' = Tier1(soup)
  /\ IF NeedTier2(candidates')
     THEN pc' = "tier2" /\ thumb_links' = ThumbLinks(soup)
     ELSE pc' = "return" /\ thumb_links' = thumb_links
  /\ UNCHANGED << argVars, exitCode, netVars, soup, tidx, thist, images,
                  poolVars, fsVars, repVars >>

\* what the loop keeps of one photo page: fetched and parsed or not, whether
\* it has an image element, the src of its first image with one
PageSeen(psoup) ==
  [ok |-> TRUE,
   img |-> \E k \in 1..Len(psoup) : psoup[k].name = "img",
   src |-> IF FirstImg(psoup) = 0 THEN None ELSE psoup[FirstImg(psoup)].attrs["src"]]

PageLost == [ok |-> FALSE, img |-> FALSE, src |-> None]

\* lines 124-133: one photo page; an error is logged and the loop goes on
PageGet ==
  /\ pc = "tier2"
  /\ tidx <= Len(thumb_links)
  /\ pageGets' = pageGets + 1
  /\ \/ \E f \in GetFailures :
          /\ pc' = IF CatchesPageError(ErrorKind(f)) THEN pc ELSE "crash"
          /\ candidates' = candidates
          /\ thist' = Append(thist, PageLost)
     \/ \E status \in Statuses \ GetFailures : \E psoup \in PagesOf(status) :
          /\ pc' = pc
          /\ candidates' = candidates \cup PageEntry(thumb_links[tidx], psoup)
          /\ thist' = Append(thist, PageSeen(psoup))
  /\ tidx' = tidx + 1
  /\ exitCode' = IF pc' = "crash" THEN 1 ELSE exitCode
  /\ UNCHANGED << argVars, posts, albumGets, loginResp, albumResp, soup, thumb_links,
                  images, poolVars, fsVars, repVars >>

\* the loop over thumb_links is over
PagesDone ==
  /\ pc = "tier2"
  /\ tidx = Len(thumb_links) + 1
  /\ pc' = "return"
  /\ UNCHANGED << argVars, exitCode, netVars, scanVars, poolVars, fsVars, repVars >>

\* line 135: return sorted(candidates)
Return ==
  /\ pc = "return"
  /\ images' = Sorted(candidates)
  /\ pc' = "returned"
  /\ UNCHANGED << argVars, exitCode, netVars, soup, candidates, thumb_links, tidx,
                  thist, poolVars, fsVars, repVars >>

\* lines 184-189: no images is exit status 1; the resolver's locals are gone
CheckImages ==
  /\ pc = "returned"
  /\ Len(images) <= MaxImages
  /\ pc' = AfterResolve(images)
  /\ exitCode' = IF pc' = "exit1" THEN 1 ELSE exitCode
  /\ soup' = <<>> /\ candidates' = {} /\ thumb_links' = <<>> /\ tidx' = 1 /\ thist' = <<>>
  /\ UNCHANGED << argVars, netVars, images, poolVars, fsVars, repVars >>

(***************************************************************************)
(* The filesystem under out_dir.                                           *)
(***************************************************************************)
\* handles open on inode n
Handles(futs, n) == {i \in 1..Len(futs) : futs[i].fh = n}

\* an inode lives while a path or an open handle refers to it
Live(fl, dt, futs) ==
  [n \in {m \in DOMAIN dt : (\E q \in DOMAIN fl : fl[q] = m) \/ Handles(futs, m) # {}}
     |-> dt[n]]

\* the file with chunk c written at offset off (a gap reads as holes)
WriteAt(content, off, c) ==
  [k \in 1..(IF Len(content) > off + 1 THEN Len(content) ELSE off + 1) |->
     IF k = off + 1 THEN c
     ELSE IF k <= Len(content) THEN content[k] ELSE Hole]

\* path q now names inode n
Bind(fl, q, n) == [r \in (DOMAIN fl) \cup {q} |-> IF r = q THEN n ELSE fl[r]]

\* path q is gone
Unbind(fl, q) == [r \in (DOMAIN fl) \ {q} |-> fl[r]]

\* (a variant that leaves the source path in place)
RenameKeepsSource(fl, src, dst) == Bind(fl, dst, fl[src])

\* os.rename(src, dst): dst names src's inode, src is gone
Rename(fl, src, dst) == IF src = dst THEN fl ELSE Unbind(Bind(fl, dst, fl[src]), src)

\* the destination of future i: its dest argument
Dest(i) == futures[i].dest

\* (a variant that streams straight into the destination)
TmpIsDest(i) == Dest(i)

\* its marker: tmp = dest.with_suffix(dest.suffix + ".part")
Tmp(i) == Marker(Dest(i))

\* (a variant that opens the marker without truncating it)
KeepContent(old) == old

\* tmp.open("wb"): what is left of a marker already there
OpenContent(old) == <<>>

\* the body of the response future i received
Body(f, i) == [j \in 1..f.blen |-> <<i, j>>]

(***************************************************************************)
(* The Dispatcher: lines 189-208.                                          *)
(***************************************************************************)
\* ThreadPoolExecutor(max_workers=args.workers): ValueError unless positive
MakePool ==
  /\ pc = "pool"
  /\ pc' = IF workers <= 0 THEN "crash" ELSE "submit"
  /\ exitCode' = IF pc' = "crash" THEN 1 ELSE exitCode
  /\ UNCHANGED << argVars, netVars, scanVars, poolVars, fsVars, repVars >>

\* pool.submit for the next URL; after the last one, the as_completed loop
Submit ==
  /\ pc = "submit"
  /\ IF Len(futures) < Len(images)
     THEN /\ futures' = Append(futures, NewFuture(images[Len(futures) + 1]))
          /\ queue' = Append(queue, Len(futures) + 1)
          /\ pc' = pc
     ELSE /\ pc' = "join"
          /\ UNCHANGED << futures, queue >>
  /\ UNCHANGED << argVars, exitCode, netVars, scanVars, cur, fsVars, repVars >>

\* a worker takes the oldest queued future
Take(w) ==
  /\ WorkerFree(cur[w])
  /\ queue # <<>>
  /\ cur' = [cur EXCEPT ![w] = Head(queue)]
  /\ queue' = Tail(queue)
  /\ futures' = [futures EXCEPT ![Head(queue)].st = "exists"]
  /\ UNCHANGED << argVars, pc, exitCode, netVars, scanVars, fsVars, repVars >>

\* the future worker w runs ends with exception err ("none": it returned);
\* its handle is closed and the worker is free again (the new futures and
\* files are bound by \E so that they are computed once)
End(w, err, futs, fl, dt) ==
  LET i == cur[w]
  IN \E done \in {[futs EXCEPT ![i].st = IF err = "none" THEN "ok" ELSE "fail",
                                ![i].err = err, ![i].fh = 0]} :
       \E left \in {fl} :
         /\ futures' = done
         /\ cur' = [cur EXCEPT ![w] = 0]
         /\ files' = left
         /\ data' = Live(left, dt, done)

\* line 145: if dest.exists(): return
Exists(w) ==
  /\ cur[w] # 0
  /\ futures[cur[w]].st = "exists"
  /\ LET i == cur[w]
         found == Dest(i) \in DOMAIN files
         futs == [futures EXCEPT ![i].existed = found]
     IN IF AfterExists(found) = "ok"
        THEN End(w, "none", futs, files, data)
        ELSE /\ futures' = [futs EXCEPT ![i].st = AfterExists(found)]
             /\ UNCHANGED << cur, files, data >>
  /\ UNCHANGED << argVars, pc, exitCode, netVars, scanVars, queue, pre, repVars >>

\* lines 148-149: the GET and raise_for_status
Get(w) ==
  /\ cur[w] # 0
  /\ futures[cur[w]].st = "get"
  /\ LET i == cur[w]
         futs == [futures EXCEPT ![i].gets = @ + 1]
     IN \/ \E f \in {"transport", "http"} :
             IF AfterGetError(f) = "fail"
             THEN End(w, f, futs, files, data)
             ELSE /\ futures' = [futs EXCEPT ![i].st = AfterGetError(f)]
                  /\ UNCHANGED << cur, files, data >>
        \/ \E n \in 0..MaxChunks :
             /\ futures' = [futs EXCEPT ![i].st = "open", ![i].blen = n]
             /\ UNCHANGED << cur, files, data >>
  /\ UNCHANGED << argVars, pc, exitCode, netVars, scanVars, queue, pre, repVars >>

\* lines 150-151: tmp.open("wb") creates the marker or truncates the one there
Open(w) ==
  /\ cur[w] # 0
  /\ futures[cur[w]].st = "open"
  /\ LET i == cur[w]
         there == Tmp(i) \in DOMAIN files
         ino == IF there THEN files[Tmp(i)] ELSE i
     IN \/ End(w, "os", futures, files, data)
        \/ /\ futures' = [futures EXCEPT ![i].st = "write", ![i].fh = ino, ![i].pos = 0]
           /\ files' = Bind(files, Tmp(i), ino)
           /\ data' = [n \in (DOMAIN data) \cup {ino} |->
                         IF n # ino THEN data[n]
                         ELSE IF there THEN OpenContent(data[n]) ELSE <<>>]
           /\ cur' = cur
  /\ UNCHANGED << argVars, pc, exitCode, netVars, scanVars, queue, pre, repVars >>

\* lines 152-154: the next chunk arrives and is written at the handle's offset
\* (a chunk of 256 KiB goes through the file object's buffer at once), or the
\* stream or the write fails
Write(w) ==
  /\ cur[w] # 0
  /\ futures[cur[w]].st = "write"
  /\ futures[cur[w]].pos < futures[cur[w]].blen
  /\ LET i == cur[w]
         f == futures[i]
     IN \/ \E e \in {"transport", "os"} : End(w, e, futures, files, data)
        \/ /\ futures' = [futures EXCEPT ![i].pos = @ + 1]
           /\ data' = [data EXCEPT ![f.fh] = WriteAt(@, f.pos, <<i, f.pos + 1>>)]
           /\ UNCHANGED << cur, files >>
  /\ UNCHANGED << argVars, pc, exitCode, netVars, scanVars, queue, pre, repVars >>

\* lines 151-155: the body is over, the handle is closed, tmp.rename(dest);
\* the rename raises when the marker is no longer there
Promote(w) ==
  /\ cur[w] # 0
  /\ futures[cur[w]].st = "write"
  /\ futures[cur[w]].pos = futures[cur[w]].blen
  /\ \E tmp \in {Tmp(cur[w])} : \E dest \in {Dest(cur[w])} :
       IF tmp \in DOMAIN files
       THEN End(w, "none", futures, Rename(files, tmp, dest), data)
       ELSE End(w, "os", futures, files, data)
  /\ UNCHANGED << argVars, pc, exitCode, netVars, scanVars, queue, pre, repVars >>

\* lines 200-206: as_completed hands over a finished future; its exception
\* is logged, the bar advances
Collect(i) ==
  /\ pc = "join"
  /\ i \in 1..Len(futures)
  /\ futures[i].st \in {"ok", "fail"}
  /\ ~futures[i].seen
  /\ futures' = [futures EXCEPT ![i].seen = TRUE]
  /\ IF futures[i].st = "fail" /\ ~CatchesResultError(futures[i].err)
     THEN /\ pc' = "crash" /\ exitCode' = 1
          /\ UNCHANGED repVars
     ELSE /\ outcomes' = outcomes \cup {[url |-> images[i], ok |-> futures[i].st = "ok"]}
          /\ bar' = bar + 1
          /\ UNCHANGED << pc, exitCode >>
  /\ UNCHANGED << argVars, netVars, scanVars, queue, cur, fsVars >>

\* line 208: every future was handed over; the pool is shut down
AllDone ==
  /\ pc = "join"
  /\ JoinOver(futures)
  /\ pc' = "done"
  /\ exitCode' = 0
  /\ UNCHANGED << argVars, netVars, scanVars, poolVars, fsVars, repVars >>

Next ==
  \/ Start \/ Login \/ AlbumGet \/ Case1 \/ PageGet \/ PagesDone \/ Return
  \/ CheckImages \/ MakePool \/ Submit
  \/ \E w \in 1..workers : Take(w)
  \/ \E w \in 1..workers : Exists(w)
  \/ \E w \in 1..workers : Get(w)
  \/ \E w \in 1..workers : Open(w)
  \/ \E w \in 1..workers : Write(w)
  \/ \E w \in 1..workers : Promote(w)
  \/ \E i \in 1..Len(futures) : Collect(i)
  \/ AllDone

Spec == Init /\ [][Next]_vars

\* the steps of the main thread once the pool exists
MainStep ==
  \/ Submit
  \/ \E i \in 1..Len(futures) : Collect(i)
  \/ AllDone

\* the steps of pool thread w
WorkerStep(w) ==
  /\ w \in 1..workers
  /\ Take(w) \/ Exists(w) \/ Get(w) \/ Open(w) \/ Write(w) \/ Promote(w)

\* the same program when, once the pool exists, no thread stops for ever at
\* a step it can take: the image request carries a timeout (line 148), so
\* it returns or raises, and the operating system runs every thread
FairSpec ==
  /\ Init
  /\ [][Next]_vars
  /\ WF_vars(MainStep)
  /\ \A w \in 1..MaxWorkers : WF_vars(WorkerStep(w))

(***************************************************************************)
(* Properties.                                                             *)
(***************************************************************************)
Futs == 1..Len(futures)

\* future i failed although its destination was not there when it looked
FailedFresh(i) == futures[i].st = "fail" /\ ~futures[i].existed

\* future j put its marker at its destination
Promoted(j) == futures[j].st = "ok" /\ ~futures[j].existed

\* future i fails in this step, not having found a file at its destination
FailsNow(i) == futures[i].st # "fail" /\ futures'[i].st = "fail" /\ ~futures'[i].existed

Complete(d) ==
  \E j \in Futs :
    /\ Dest(j) = d
    /\ futures[j].blen >= 0
    /\ data[files[d]] = Body(futures[j], j)

\* every file this run put at a Destination Path is complete
NoPartialFile ==
  \A i \in Futs : (Dest(i) \in DOMAIN files /\ Dest(i) \notin pre) => Complete(Dest(i))

\* no two resolved URLs share a file name
NoCollision ==
  \A i, j \in 1..Len(images) : FileName(images[i]) = FileName(images[j]) => i = j

C3_SkipIsNoOp ==
  /\ [](\A i \in Futs :
          futures[i].existed =>
            /\ futures[i].st = "ok"
            /\ futures[i].gets = 0
            /\ futures[i].fh = 0
            /\ futures[i].pos = 0)
  /\ [][\A i \in Futs :
          (~futures[i].existed /\ futures'[i].existed) =>
            /\ files' = files
            /\ data' = data]_vars

\* a file left by an earlier run, with content that is no URL's body, was
\* found and skipped, and is still there
C3_Witness ==
  \E i \in Futs :
    /\ futures[i].existed
    /\ futures[i].st = "ok"
    /\ Dest(i) \in pre
    /\ data[files[Dest(i)]] = OldData

Urls == {images[k] : k \in 1..Len(images)}

\* C4: when the run is over, the bar advanced once per URL, one outcome was
\* collected per URL, the outcomes' URLs are the resolved URLs and every
\* invocation ran to its end; no transfer failure ends the run.
C4_EveryUrlCollected ==
  /\ pc = "done" =>
       /\ bar = Len(images)
       /\ Cardinality(outcomes) = Len(images)
       /\ {o.url : o \in outcomes} = Urls
       /\ Len(futures) = Len(images)
       /\ \A i \in Futs : futures[i].st \in {"ok", "fail"} /\ futures[i].seen
  /\ pc = "crash" => futures = <<>>

\* the first of two transfers failed, the second one fetched its file, and
\* both were collected
C4_Witness ==
  /\ pc = "done"
  /\ Len(images) = 2
  /\ futures[1].st = "fail"
  /\ Promoted(2)
  /\ futures[2].gets = 1
  /\ bar = 2

\* future i has been taken by a worker and has not ended
Running(i) == futures[i].st \notin {"pending", "ok", "fail"}

\* C5: never more than --workers invocations are running, each one on a
\* worker of its own, and a worker leaves an invocation only when it ended.
C5_BoundedWorkers ==
  /\ [](/\ Cardinality({i \in Futs : Running(i)}) <= workers
        /\ \A i \in Futs : Running(i) => \E w \in 1..workers : cur[w] = i)
  /\ [][\A w \in 1..workers :
          (cur[w] # 0 /\ cur'[w] # cur[w]) =>
            /\ futures'[cur[w]].st \in {"ok", "fail"}
            /\ cur'[w] = 0]_vars

\* one worker, two URLs: the second waits in the queue while the first is
\* being written
C5_Witness ==
  /\ workers = 1
  /\ Len(futures) = 2
  /\ futures[1].st = "write"
  /\ futures[2].st = "pending"
  /\ queue = <<2>>

Invalid == <<"i","n","v","a","l","i","d">>

\* the sign-in failed: no response, a status outside 2xx, or the marker
LoginFailed ==
  /\ posts > 0
  /\ \/ loginResp.err
     \/ loginResp.status \notin 200..299
     \/ Contains(Invalid, Lower(loginResp.body))

\* the album fetch failed: no response, or a status outside 2xx
AlbumFailed == albumResp >= 0 /\ albumResp \notin 200..299

\* out_dir holds what it held at the start
NothingWritten ==
  /\ files = [q \in pre |-> PreIno(q)]
  /\ data = [n \in {PreIno(q) : q \in pre} |-> OldData]

\* C6: after a failed sign-in no album page, photo page or image is
\* requested; after a failed album fetch no photo page or image is; in both
\* cases nothing is written and the exit status is not zero.
C6_SetupFailureIsFatal ==
  /\ LoginFailed =>
       /\ albumGets = 0 /\ pageGets = 0 /\ futures = <<>>
       /\ NothingWritten
       /\ pc = "crash" /\ exitCode > 0
  /\ AlbumFailed =>
       /\ albumGets = 1 /\ pageGets = 0 /\ futures = <<>>
       /\ NothingWritten
       /\ pc = "crash" /\ exitCode > 0

\* the sign-in answered 200 with "invalid" in its body, in capitals
C6_Witness ==
  /\ loginResp.status = 200
  /\ Contains(Invalid, Lower(loginResp.body))
  /\ ~Contains(Invalid, loginResp.body)
  /\ pc = "crash"
  /\ exitCode = 1

\* the album fetch answered 404 after a sign-in that went through
C6_WitnessAlbum ==
  /\ posts = 1
  /\ albumResp = 404
  /\ pc = "crash"

\* the image references the album page embeds directly
DirectSrcs(page) ==
  { v \in UNION { {page[k].attrs[x] :
                     x \in IF page[k].name = "a" THEN {"href"} ELSE _FULL_RES_ATTRS}
                  : k \in 1..Len(page) }
      : Truthy(v) /\ _is_image(v) }

\* main is inside _extract_image_urls, past the album fetch
Scanning == pc \in {"tier1", "tier2", "return", "returned"}

\* C7: when the album page embeds an image reference, no photo page is
\* fetched and every returned URL comes from such a reference.
C7_Tier2OnlyIfTier1Empty ==
  (Scanning /\ DirectSrcs(soup) # {}) =>
    /\ pageGets = 0
    /\ pc # "tier2"
    /\ pc = "returned" =>
         /\ images # <<>>
         /\ \A u \in Urls : \E v \in DirectSrcs(soup) : u = StripQuery(_absolute(album_url, v))

\* the album page has an image reference and a permalink anchor; the
\* resolver returned without fetching the photo page
C7_Witness ==
  /\ pc = "returned"
  /\ DirectSrcs(soup) # {}
  /\ ThumbLinks(soup) # <<>>
  /\ pageGets = 0
  /\ images # <<>>

\* C8: a photo page that cannot be fetched adds nothing, the later ones are
\* fetched all the same, and the resolver returns instead of raising.
C8_PageFailureIsolated ==
  /\ [](thist # <<>> => pc \in {"tier2", "return", "returned"})
  /\ []((pc \in {"return", "returned"} /\ DirectSrcs(soup) = {}) =>
          /\ Len(thist) = Len(ThumbLinks(soup))
          /\ pageGets = Len(ThumbLinks(soup)))
  /\ [][(Len(thist') = Len(thist) + 1 /\ ~thist'[Len(thist')].ok) =>
          candidates' = candidates]_vars

\* the first photo page failed, the second one was fetched and gave a URL
C8_Witness ==
  /\ pc = "returned"
  /\ Len(thist) = 2
  /\ ~thist[1].ok
  /\ thist[2].ok
  /\ Len(images) = 1

\* Case 2 ran over at least one photo page and the resolver returned
Tier2Returned == pc = "returned" /\ DirectSrcs(soup) = {} /\ ThumbLinks(soup) # <<>>

\* photo pages fetched and parsed that have an image element
ImagePages == {k \in 1..Len(thist) : thist[k].ok /\ thist[k].img}

\* photo pages whose first image with a src has one that names an image file
MatchingPages ==
  {k \in 1..Len(thist) : thist[k].ok /\ thist[k].src # None /\ _is_image(thist[k].src)}

\* C9 as stated: the resolver returns as many URLs as there are fetched
\* photo pages with an image element.
C9_OnePerImagePage == Tier2Returned => Len(images) = Cardinality(ImagePages)

\* C9 amended: the resolver returns exactly the distinct URLs of the first
\* src-bearing image of each fetched photo page whose src matches the
\* image-file pattern, so at most one per such page.
C9_OnePerDistinctMatch ==
  Tier2Returned =>
    /\ Urls = {_absolute(thumb_links[k], thist[k].src) : k \in MatchingPages}
    /\ Cardinality(Urls) = Len(images)
    /\ Len(images) <= Cardinality(MatchingPages)
    /\ MatchingPages \subseteq ImagePages

\* two photo pages show the same image: one URL is returned for the two
C9_Witness ==
  /\ Tier2Returned
  /\ Cardinality(ImagePages) = 2
  /\ Cardinality(MatchingPages) = 2
  /\ Len(images) = 1

\* C10: no URL the resolver returns has a query string.
C10_NoQueryString ==
  pc = "returned" => \A u \in Urls : FirstIndex("?", u) = 0

\* C11: the sequence the resolver returns is strictly increasing in code
\* point order and holds exactly the candidates found, each once, so it is
\* the one such sequence whatever order the candidates were found in.
C11_StrictlyIncreasing ==
  pc = "returned" =>
    /\ \A k \in 1..(Len(images) - 1) : StrLess(images[k], images[k + 1])
    /\ Urls = candidates
    /\ Len(images) = Cardinality(candidates)
    /\ \A t \in [1..Len(images) -> candidates] :
         (\A k \in 1..(Len(t) - 1) : StrLess(t[k], t[k + 1])) => t = images

\* the album page's second tag gives the URL that sorts first
C11_Witness ==
  /\ pc = "returned"
  /\ Len(soup) = 2
  /\ Len(images) = 2
  /\ Tier1(<<soup[1]>>) = {images[2]}
  /\ Tier1(<<soup[2]>>) = {images[1]}

\* the sign-in was made and nothing was requested after it
JustSignedIn == posts > 0 /\ albumGets = 0

\* C12: the sign-in succeeds exactly when a response arrived, its status
\* is a success (2xx) one and its body does not contain "invalid" in any
\* case; otherwise it fails.
C12_SucceedsIffSuccessStatus ==
  JustSignedIn =>
    (pc = "scan" <=>
       /\ ~loginResp.err
       /\ loginResp.status \in 200..299
       /\ ~Contains(Invalid, Lower(loginResp.body)))

\* the process has exited
Exited == exitCode # 0 - 1

\* the album page was fetched: a response arrived and its status did not raise
AlbumFetched == albumResp \in 200..399

\* C13: after a successful album fetch the process exits with status 1,
\* having started no transfer, when the resolver returned nothing, and with
\* status 0 when it returned something, whatever the transfers did.
C13_ExitCodes ==
  (Exited /\ AlbumFetched) =>
    IF images = <<>>
    THEN exitCode = 1 /\ futures = <<>>
    ELSE exitCode = 0

\* URL j comes after URL i in the resolved sequence and has its file name
LaterSameName(i, j) == i < j /\ images[i] # images[j] /\ Dest(i) = Dest(j)

MarkerNames == {PreName} \cup {Dest(i) : i \in Futs}

\* some invocation with Destination Path d failed
SomeFailed(d) == \E i \in Futs : Dest(i) = d /\ futures[i].st = "fail"

Stale(d) ==
  /\ Marker(d) \in pre
  /\ files[Marker(d)] = PreIno(Marker(d))
  /\ data[files[Marker(d)]] = OldData
  /\ \A i \in Futs : Dest(i) = d => futures[i].existed

Queued(i) == \E k \in 1..Len(queue) : queue[k] = i

\* C16: there is one invocation per resolved URL, a worker takes it once,
\* it makes at most one GET, and once it has ended it is never queued, run
\* or changed again but for being collected; a failed one stays failed.
C16_NoRetry ==
  /\ [](/\ Len(futures) <= Len(images)
        /\ pc \in {"join", "done"} => Len(futures) = Len(images)
        /\ \A i \in Futs :
             /\ futures[i].gets <= 1
             /\ Cardinality({k \in 1..Len(queue) : queue[k] = i}) <= 1
             /\ Cardinality({w \in 1..workers : cur[w] = i}) <= 1
             /\ Queued(i) <=> futures[i].st = "pending"
             /\ (\E w \in 1..workers : cur[w] = i) <=> Running(i))
  /\ [][\A i \in Futs :
          futures[i].st \in {"ok", "fail"} =>
            futures'[i] = [futures[i] EXCEPT !.seen = futures'[i].seen]]_vars

\* the first of two transfers was refused by the server, made its one GET
\* and stayed failed while the second one was fetched; the run is over
C16_Witness ==
  /\ pc = "done"
  /\ Len(images) = 2
  /\ futures[1].st = "fail"
  /\ futures[1].err = "http"
  /\ futures[1].gets = 1
  /\ futures[2].st = "ok"
  /\ futures[2].gets = 1

\* C17: the final report comes only when every URL has its invocation,
\* every invocation has ended and was collected and no worker runs one;
\* and once the pool exists the run gets to the final report.
C17_JoinBeforeDone ==
  /\ [](pc = "done" =>
          /\ Len(futures) = Len(images)
          /\ queue = <<>>
          /\ \A w \in 1..workers : cur[w] = 0
          /\ \A i \in Futs : futures[i].st \in {"ok", "fail"} /\ futures[i].seen)
  /\ [][(pc # "done" /\ pc' = "done") =>
          \A i \in Futs : futures[i].st \in {"ok", "fail"} /\ futures[i].seen]_vars
  /\ (pc = "submit" ~> pc = "done")

\* two invocations ran at the same time on two workers, one of them failed,
\* and the run got to its final report
C17_Witness ==
  /\ pc = "done"
  /\ workers = 2
  /\ Len(futures) = 2
  /\ futures[1].gets = 1
  /\ futures[2].gets = 1
  /\ futures[2].st = "fail"
  /\ futures[2].pos > 0
  /\ futures[1].st = "ok"

\* a GET was made: for the album page, a photo page or an image
SomeGet ==
  \/ albumGets > 0
  \/ pageGets > 0
  \/ \E i \in Futs : futures[i].gets > 0

\* C18: the run makes a sign-in POST exactly when an email and a password
\* were both given, and goes on to the album without one otherwise; the
\* POST is made once, before any GET, and nothing after it makes another
\* POST or changes what the sign-in answered.
C18_SignInOnceAndFirst ==
  /\ [](/\ posts <= 1
        /\ pc \notin {"start", "login"} => (posts = 1 <=> (email /\ password))
        /\ SomeGet => (posts = 1 <=> (email /\ password)))
  /\ [][/\ (pc = "start" /\ ~(email /\ password)) => (pc' = "scan" /\ posts' = 0)
        /\ posts' # posts => (posts = 0 /\ posts' = 1 /\ ~SomeGet)
        /\ posts = 1 => (posts' = 1 /\ loginResp' = loginResp)]_vars

\* email and password given: one POST, then the album page, then an image
C18_Witness ==
  /\ email /\ password
  /\ posts = 1
  /\ loginResp.status = 200
  /\ albumGets = 1
  /\ pc = "done"
  /\ \E i \in Futs : futures[i].gets = 1 /\ Promoted(i)

\* an earlier run left a marker for future i's file name and no file
StaleFor(i) == Tmp(i) \in pre /\ Dest(i) \notin pre

\* future i opens its marker in this step
OpensNow(i) == futures[i].st = "open" /\ futures'[i].st = "write"

\* future i renames its marker and succeeds in this step
PromotesNow(i) == futures[i].st = "write" /\ futures'[i].st = "ok"

\* the chunks of file content
Chunks(content) == {content[k] : k \in 1..Len(content)}

\* C19 as stated: an invocation that finds a stale marker and no file
\* opens the marker empty, and when it succeeds the file at its
\* Destination Path is the body it fetched.
C19_FreshBodyAfterStale ==
  [][\A i \in Futs :
       /\ (StaleFor(i) /\ OpensNow(i)) => data'[futures'[i].fh] = <<>>
       /\ (StaleFor(i) /\ PromotesNow(i)) =>
            /\ futures[i].gets = 1
            /\ data'[files'[Dest(i)]] = Body(futures[i], i)]_vars

\* C19 amended: no file this run puts at a Destination Path ever holds a
\* chunk of a marker an earlier run left, and an invocation that finds a
\* stale marker and no file opens the marker empty; when it succeeds the
\* file is the body it fetched, provided no other invocation with its
\* Destination Path runs at the same time (the file names are pairwise
\* distinct, or there is one worker).
C19_StaleNeverContributes ==
  /\ [](\A i \in Futs :
          (Dest(i) \in DOMAIN files /\ Dest(i) \notin pre) =>
            Chunks(data[files[Dest(i)]]) \cap Chunks(OldData) = {})
  /\ [][\A i \in Futs :
          /\ (StaleFor(i) /\ OpensNow(i)) => data'[futures'[i].fh] = <<>>
          /\ (StaleFor(i) /\ PromotesNow(i) /\ (NoCollision \/ workers = 1)) =>
               /\ futures[i].gets = 1
               /\ data'[files'[Dest(i)]] = Body(futures[i], i)]_vars

\* the stale marker was opened, emptied, filled with a body of the longest
\* kind and renamed: the file is the marker's inode and holds that body
C19_Witness ==
  \E i \in Futs :
    /\ StaleFor(i)
    /\ Promoted(i)
    /\ futures[i].blen = MaxChunks
    /\ files[Dest(i)] = PreIno(Tmp(i))
    /\ data[files[Dest(i)]] = Body(futures[i], i)
    /\ Tmp(i) \notin DOMAIN files

\* C20: every URL the resolver returns matches the image-file pattern.
C20_ReturnedUrlsAreImages ==
  pc = "returned" => \A u \in Urls : _is_image(u)

====
